---- MODULE Spec2Model ----
(***************************************************************************)
(* Model of src/mcp/mcp_server.py: the request handlers of the MCP bridge  *)
(* server and the response-normalisation / fallback logic behind them.     *)
(*                                                                         *)
(* One request is followed from its arrival to its terminal response.      *)
(* Every request is independent (the module keeps no globals), so a        *)
(* behaviour of the model is the life of one request of one route.         *)
(*                                                                         *)
(* Texts are sequences of one-character strings; the two regular           *)
(* expressions of extract_jira_issue_info are evaluated on them character  *)
(* by character with Python's leftmost / greedy search semantics.          *)
(* Exception messages are sequences of phrases; `x in str(e)` is phrase    *)
(* occurrence and str.lower() is a per-phrase table.                       *)
(***************************************************************************)
EXTENDS Integers, Sequences, FiniteSets, TLC

VARIABLES
    route,      \* which handler serves the request
    req,        \* the request record (pydantic model instance)
    pc,         \* position of the handler
    agent,      \* value bound to `agent` (Jira route) or `llm` (direct routes)
    fallback_agent, \* value bound to `fallback_agent` at line 435
    result,     \* value bound to `result`: the text the provider returned
    err,        \* str() of the exception caught around the provider call
                \* (validation_error, generation_error, review_error)
    fallback_error, \* str(fallback_error) of the exception caught at line 456
    calls,      \* provider invocations made so far, in order
    resp,       \* the response returned to the route layer
    raised,     \* TRUE iff an exception left the handler
    fs,         \* the directory ./screenshots: whether it exists, and its entries
    procs,      \* the GET /screenshots and POST /clear-screenshots requests in flight
    loop,       \* the request whose synchronous section holds the event loop
    env_steps   \* steps other processes have taken on the directory

fsvars == <<fs, procs, loop, env_steps>>

vars == <<route, req, pc, agent, fallback_agent, result, err, fallback_error,
          calls, resp, raised, fs, procs, loop, env_steps>>

(***************************************************************************)
(* Bounds of the model                                                     *)
(***************************************************************************)
MaxSegs == 3        \* a provider text is a concatenation of at most MaxSegs segments
MaxElapsed == 1     \* elapsed wall-clock readings range over 0..MaxElapsed
MaxHtmlSegs == 4    \* a FreeformHtml text is a concatenation of at most MaxHtmlSegs segments
MaxCodeSegs == 4    \* a CodeBundle text is a concatenation of at most MaxCodeSegs segments
MaxEnvSteps == 2    \* other processes take at most MaxEnvSteps steps on ./screenshots

(***************************************************************************)
(* Characters and literals                                                 *)
(***************************************************************************)
UpperChars == {"A","B","C","D","E","F","G","H","I","J","K","L","M",
               "N","O","P","Q","R","S","T","U","V","W","X","Y","Z"}
DigitChars == {"0","1","2","3","4","5","6","7","8","9"}

HttpsLit == <<"h","t","t","p","s",":","/","/">>
AtlassianBrowseLit ==
    <<".","a","t","l","a","s","s","i","a","n",".","n","e","t",
      "/","b","r","o","w","s","e","/">>
BrowseLit == <<"/","b","r","o","w","s","e","/">>
cloud_id == <<"r","o","w","e","n",".","a","t","l","a","s","s","i","a","n",".","n","e","t">>

None == <<>>

\* an unbound / None-valued name, and a bound one
NoneVal == [present |-> FALSE, value |-> <<>>]
Some(v) == [present |-> TRUE, value |-> v]

(***************************************************************************)
(* The inputs: requests, provider texts, exception messages                *)
(***************************************************************************)
Projects == {<<"A">>, <<"B">>}
ProviderNames == {"google", "openai", "OpenAI", "anthropic", "bogus"}
ModelNames == {"gemini-2.5-pro", "gpt-4"}

Segments ==
    { <<"A","-","1">>,
      <<"B","-","2","2">>,
      <<"a","-","1">>,
      <<"o","k"," ">>,
      <<"/">>,
      HttpsLit \o <<"x">> \o AtlassianBrowseLit,
      HttpsLit \o <<"x",".","n","e","t">> \o BrowseLit }

RECURSIVE Concats(_)
Concats(k) ==
    IF k = 0 THEN {<<>>}
    ELSE LET shorter == Concats(k - 1)
         IN  shorter \cup {t \o s : t \in shorter, s \in Segments}

Texts == Concats(MaxSegs)

\* str(e) of the exceptions a provider call raises: the pydantic signature
\* of a nested object given for a scalar field, in several spellings and
\* orders, its two halves alone, auth / connection / SSL phrasing, a message
\* holding both signatures, an unrelated message and the empty message
ErrMsgs ==
    { <<"validation error", "DynamicModel">>,
      <<"DynamicModel", "validation error">>,
      <<"Validation Error", "DynamicModel">>,
      <<"validation error", "dynamicmodel">>,
      <<"validation error", "DynamicModel", "authentication">>,
      <<"validation error">>,
      <<"DynamicModel">>,
      <<"authentication">>,
      <<"OAuth", "Connection error">>,
      <<"SSL">>,
      <<"timeout">>,
      <<>> }

\* str(e) of the AttributeError raised by `agent.run` when `agent` is the
\* coroutine object returned by calling the async def without await
CoroutineRunError == <<"'coroutine' object has no attribute 'run'">>
UnsupportedProviderError == <<"Unsupported LLM provider">>
McpClientError == <<"Failed to create jira MCP client">>

(***************************************************************************)
(* str.lower() and the `in` operator on messages                           *)
(***************************************************************************)
Lower(p) ==
    CASE p = "Validation Error" -> "validation error"
      [] p = "DynamicModel"     -> "dynamicmodel"
      [] p = "OAuth"            -> "oauth"
      [] p = "Connection error" -> "connection error"
      [] p = "SSL"              -> "ssl"
      [] p = "OpenAI"           -> "openai"
      [] OTHER                  -> p

LowerMsg(m) == [i \in 1..Len(m) |-> Lower(m[i])]

Contains(m, p) == \E i \in 1..Len(m) : m[i] = p

(***************************************************************************)
(* Regular-expression search (re.search: leftmost start, greedy runs)      *)
(***************************************************************************)
HasAt(s, i, lit) ==
    /\ i >= 1
    /\ i + Len(lit) - 1 <= Len(s)
    /\ \A k \in 1..Len(lit) : s[i + k - 1] = lit[k]

\* last index of the maximal run of characters of S that starts at i (i - 1 if empty)
RECURSIVE RunEnd(_, _, _)
RunEnd(s, i, S) ==
    IF i > Len(s) \/ s[i] \notin S THEN i - 1 ELSE RunEnd(s, i + 1, S)

\* [A-Z]+-\d+ anchored at i: index of the last matched character, 0 if no match
KeyEndAt(s, i) ==
    LET u == RunEnd(s, i, UpperChars)
        d == RunEnd(s, u + 2, DigitChars)
    IN  IF /\ i >= 1
           /\ u >= i
           /\ u + 1 <= Len(s)
           /\ s[u + 1] = "-"
           /\ d >= u + 2
        THEN d ELSE 0

\* https://[^/]+\.atlassian\.net/browse/[A-Z]+-\d+ anchored at i
UrlEndAt(s, i) ==
    IF ~HasAt(s, i, HttpsLit) THEN 0
    ELSE LET h == i + Len(HttpsLit)
             hostEnds == {j \in h..Len(s) :
                            /\ \A k \in h..j : s[k] # "/"
                            /\ HasAt(s, j + 1, AtlassianBrowseLit)
                            /\ KeyEndAt(s, j + 1 + Len(AtlassianBrowseLit)) # 0}
         IN  IF hostEnds = {} THEN 0
             ELSE LET j == CHOOSE x \in hostEnds : \A y \in hostEnds : y <= x
                  IN  KeyEndAt(s, j + 1 + Len(AtlassianBrowseLit))

\* re.search(r'([A-Z]+-\d+)', s).group(1), None when there is no match
SearchKey(s) ==
    LET starts == {i \in 1..Len(s) : KeyEndAt(s, i) # 0}
    IN  IF starts = {} THEN None
        ELSE LET i == CHOOSE x \in starts : \A y \in starts : x <= y
             IN  SubSeq(s, i, KeyEndAt(s, i))

\* re.search(r'(https://[^/]+\.atlassian\.net/browse/[A-Z]+-\d+)', s).group(1)
SearchUrl(s) ==
    LET starts == {i \in 1..Len(s) : UrlEndAt(s, i) # 0}
    IN  IF starts = {} THEN None
        ELSE LET i == CHOOSE x \in starts : \A y \in starts : x <= y
             IN  SubSeq(s, i, UrlEndAt(s, i))

NoInfo == [found |-> FALSE, key |-> None, url |-> None]

\* mutant: the key is read off the matched URL instead of the text
extract_jira_issue_info_KeyFromUrl(llm_result) ==
    LET issue_key_match == SearchKey(llm_result)
        url_match == SearchUrl(llm_result)
    IN  IF issue_key_match # None /\ url_match # None
        THEN [found |-> TRUE, key |-> SearchKey(url_match), url |-> url_match]
        ELSE NoInfo

extract_jira_issue_info(llm_result) ==
    LET issue_key_match == SearchKey(llm_result)
        url_match == SearchUrl(llm_result)
    IN  IF issue_key_match # None /\ url_match # None
        THEN [found |-> TRUE, key |-> issue_key_match, url |-> url_match]
        ELSE NoInfo

(***************************************************************************)
(* Decimal formatting of an integer inside an f-string                     *)
(***************************************************************************)
DigitOf(d) ==
    CASE d = 0 -> "0" [] d = 1 -> "1" [] d = 2 -> "2" [] d = 3 -> "3" [] d = 4 -> "4"
      [] d = 5 -> "5" [] d = 6 -> "6" [] d = 7 -> "7" [] d = 8 -> "8" [] OTHER -> "9"

RECURSIVE Decimal(_)
Decimal(n) ==
    IF n < 10 THEN <<DigitOf(n)>> ELSE Decimal(n \div 10) \o <<DigitOf(n % 10)>>

(***************************************************************************)
(* Values bound by the collaborator calls                                  *)
(*                                                                         *)
(* create_mcp_client and get_agent are `async def`.  execute_test_case     *)
(* awaits get_agent (line 303); create_jira_issue calls both without await *)
(* (lines 373, 378, 435), so as shipped the value it binds is a coroutine  *)
(* object: truthy, and without a `run` attribute.  The handler's guards    *)
(* (`if not agent`, `agent.run`) are written for the awaited value, an     *)
(* agent or None or an exception.  Both are outcomes of the call below.    *)
(***************************************************************************)
CoroutineObj == [kind |-> "coroutine", vendor |-> "", model |-> ""]
NoneObj == [kind |-> "none", vendor |-> "", model |-> ""]
AgentObj(vendor, model) == [kind |-> "agent", vendor |-> vendor, model |-> model]

Truthy(v) == v.kind # "none"

Returned(v) == [raises |-> FALSE, value |-> v, msg |-> None]
Raised(m) == [raises |-> TRUE, value |-> NoneObj, msg |-> m]

RecognizedProviders == {"openai", "anthropic", "google"}

\* the value `create_mcp_client("jira")` evaluates to; the function catches
\* every exception itself and returns None
create_mcp_client_values == {"coroutine", "client", "none"}

\* the outcomes of `get_agent(llm_provider, model, "jira")`
get_agent(llm_provider, model) ==
    {Returned(CoroutineObj), Raised(McpClientError)}
    \cup (IF Lower(llm_provider) \in RecognizedProviders
          THEN {Returned(AgentObj(Lower(llm_provider), model)),
                Raised(<<"authentication">>)}
          ELSE {Raised(UnsupportedProviderError)})

\* mutant: the DynamicModel conjunct dropped
IsValidationShape_AnyValidation(error_str) ==
    Contains(LowerMsg(error_str), "validation error")

\* mutant: every exception of the first call is retried
IsValidationShape_Always(error_str) == TRUE

\* line 429
IsValidationShape(error_str) ==
    /\ Contains(LowerMsg(error_str), "validation error")
    /\ Contains(error_str, "DynamicModel")

(***************************************************************************)
(* POST /create-jira-issue                                                 *)
(***************************************************************************)
RandLo == 1000
RandHi == 9999
MockNumbers == {RandLo, RandLo + 234, RandHi}

RowenBrowseLit == HttpsLit \o cloud_id \o BrowseLit

MsgCreated == "Jira issue created successfully"
MsgUnclear == "Issue creation completed but response parsing unclear"
MsgMock == "Mock Jira issue created for development (actual MCP connection needed for real issues)"

\* mutant: the response of the except branch (lines 513-518)
create_mock_jira_issue_Failed(request, issue_number) ==
    [success |-> FALSE,
     issue_key |-> <<>>,
     issue_url |-> <<>>,
     message |-> "Failed to create mock issue"]

\* The statements of the try body (randint, an f-string, the constructor on
\* str fields) cannot raise, so the except branch of lines 512-518 has no
\* trigger; issue_number is the value random.randint(1000, 9999) returned.
create_mock_jira_issue(request, issue_number) ==
    LET issue_key == request.project \o <<"-">> \o Decimal(issue_number)
    IN  [success |-> TRUE,
         issue_key |-> issue_key,
         issue_url |-> RowenBrowseLit \o issue_key,
         message |-> MsgMock]

\* lines 462-484: the response built from the provider's text
ProcessResult(request, text) ==
    LET project_key == request.project
        issue_info == extract_jira_issue_info(text)
    IN  IF issue_info.found
        THEN [success |-> TRUE,
              issue_key |-> issue_info.key,
              issue_url |-> issue_info.url,
              message |-> MsgCreated]
        ELSE [success |-> TRUE,
              issue_key |-> project_key \o <<"-","N","E","W">>,
              issue_url |-> HttpsLit \o cloud_id \o BrowseLit
                              \o project_key \o <<"-","N","E","W">>,
              message |-> MsgUnclear]

NoResp == [success |-> FALSE, issue_key |-> None, issue_url |-> None, message |-> "none"]

Call(a, prompt) == [vendor |-> a.vendor, model |-> a.model, prompt |-> prompt]

\* `return await create_mock_jira_issue(request)` (lines 375, 380, 484, 493)
ReturnMock ==
    \E n \in MockNumbers :
        /\ resp' = create_mock_jira_issue(req, n)
        /\ pc' = "done"

\* mutant: the exception is re-raised to the route layer
OuterExcept_Reraise == pc' = "done" /\ resp' = resp /\ raised' = TRUE

\* lines 486-493: every exception of the handler body ends in the mock issue
OuterExcept == ReturnMock /\ raised' = raised

\* lines 463-484 after a provider call returned `text`
Respond(text) ==
    /\ result' = Some(text)
    /\ raised' = raised
    /\ IF text # <<>>
       THEN resp' = ProcessResult(req, text) /\ pc' = "done"
       ELSE ReturnMock

\* lines 373-375
JiraCreateClient ==
    /\ route = "jira" /\ pc = "client"
    /\ \E jira_client \in create_mcp_client_values :
          IF jira_client = "none"
          THEN ReturnMock
          ELSE pc' = "agent" /\ resp' = resp
    /\ UNCHANGED fsvars
    /\ UNCHANGED <<route, req, agent, fallback_agent, result, err, fallback_error,
                   calls, raised>>

\* lines 378-380
JiraGetAgent ==
    /\ route = "jira" /\ pc = "agent"
    /\ \E o \in get_agent(req.llm_provider, req.model) :
          IF o.raises
          THEN OuterExcept /\ agent' = agent
          ELSE IF ~Truthy(o.value)
          THEN ReturnMock /\ agent' = agent /\ raised' = raised
          ELSE agent' = o.value /\ pc' = "run" /\ resp' = resp /\ raised' = raised
    /\ UNCHANGED fsvars
    /\ UNCHANGED <<route, req, fallback_agent, result, err, fallback_error, calls>>

\* lines 423-431, 459-460 and, when the call returns, 462-484
JiraRun ==
    /\ route = "jira" /\ pc = "run"
    /\ IF agent.kind = "coroutine"
       THEN \* AttributeError at `agent.run`: not a validation error, re-raised
            /\ err' = Some(CoroutineRunError)
            /\ OuterExcept
            /\ UNCHANGED <<calls, result>>
       ELSE /\ calls' = Append(calls, Call(agent, "create_prompt"))
            /\ \/ \E text \in Texts : Respond(text) /\ err' = err
               \/ \E m \in ErrMsgs :
                     /\ err' = Some(m)
                     /\ result' = result
                     /\ IF IsValidationShape(m)
                        THEN pc' = "fallback_agent" /\ resp' = resp /\ raised' = raised
                        ELSE OuterExcept
    /\ UNCHANGED fsvars
    /\ UNCHANGED <<route, req, agent, fallback_agent, fallback_error>>

\* lines 433-436, 453-458
JiraFallbackAgent ==
    /\ route = "jira" /\ pc = "fallback_agent"
    /\ \E o \in get_agent("openai", "gpt-4") :
          IF o.raises
          THEN \* get_agent raised: caught at 456, validation_error re-raised
               /\ fallback_error' = Some(o.msg)
               /\ fallback_agent' = fallback_agent
               /\ OuterExcept
          ELSE IF ~Truthy(o.value)
          THEN \* line 454 raises validation_error, caught at 456, re-raised
               /\ fallback_error' = err
               /\ fallback_agent' = o.value
               /\ OuterExcept
          ELSE /\ fallback_agent' = o.value
               /\ fallback_error' = fallback_error
               /\ pc' = "retry" /\ resp' = resp /\ raised' = raised
    /\ UNCHANGED fsvars
    /\ UNCHANGED <<route, req, agent, result, err, calls>>

\* lines 437-452, 456-458 and, when the call returns, 462-484
JiraRetry ==
    /\ route = "jira" /\ pc = "retry"
    /\ IF fallback_agent.kind = "coroutine"
       THEN \* AttributeError at `fallback_agent.run`
            /\ fallback_error' = Some(CoroutineRunError)
            /\ OuterExcept
            /\ UNCHANGED <<calls, result>>
       ELSE /\ calls' = Append(calls, Call(fallback_agent, "simplified_prompt"))
            /\ \/ \E text \in Texts : Respond(text) /\ fallback_error' = fallback_error
               \/ \E m \in ErrMsgs :
                     /\ fallback_error' = Some(m)
                     /\ result' = result
                     /\ OuterExcept
    /\ UNCHANGED fsvars
    /\ UNCHANGED <<route, req, agent, fallback_agent, err>>

(***************************************************************************)
(* Python string operations, on sequences with 0-based indices             *)
(***************************************************************************)
Whitespace == {" ", "\n", "\t"}

\* str.find(lit, start): the lowest 0-based index >= start where lit occurs, -1 if none
Find(s, lit, start) ==
    LET hits == {i \in start..Len(s) : HasAt(s, i + 1, lit)}
    IN  IF hits = {} THEN -1
        ELSE CHOOSE i \in hits : \A j \in hits : i <= j

\* str.rfind(lit): the highest 0-based index where lit occurs, -1 if none
RFind(s, lit) ==
    LET hits == {i \in 0..Len(s) : HasAt(s, i + 1, lit)}
    IN  IF hits = {} THEN -1
        ELSE CHOOSE i \in hits : \A j \in hits : j <= i

\* lit in s
In(lit, s) == Find(s, lit, 0) # -1

\* s[a:b] for a >= 0; a negative b counts from the end
Slice(s, a, b) ==
    LET hi0 == IF b < 0 THEN b + Len(s) ELSE b
        hi == IF hi0 < 0 THEN 0 ELSE IF hi0 > Len(s) THEN Len(s) ELSE hi0
    IN  IF a >= hi THEN <<>> ELSE SubSeq(s, a + 1, hi)

\* str.strip()
Strip(s) ==
    LET kept == {i \in 1..Len(s) : s[i] \notin Whitespace}
    IN  IF kept = {} THEN <<>>
        ELSE SubSeq(s, CHOOSE i \in kept : \A j \in kept : i <= j,
                       CHOOSE i \in kept : \A j \in kept : j <= i)

(***************************************************************************)
(* parse_generated_code: the FreeformHtml extractor                        *)
(***************************************************************************)
\* the character U+0060 (a TLA+ string cannot hold it)
Backtick == "BQ"
FenceLit == <<Backtick, Backtick, Backtick>>
HtmlFenceLit == FenceLit \o <<"h","t","m","l">>
DoctypeLit == <<"<","!","D","O","C","T","Y","P","E"," ","h","t","m","l",">">>
StyleOpenLit == <<"<","s","t","y","l","e",">">>
StyleCloseLit == <<"<","/","s","t","y","l","e",">">>
ScriptOpenLit == <<"<","s","c","r","i","p","t",">">>
ScriptCloseLit == <<"<","/","s","c","r","i","p","t",">">>

\* lines 802-814: the text between the first open tag and the first close tag
TagContent(html_content, open, close) ==
    IF In(open, html_content) /\ In(close, html_content)
    THEN Slice(html_content,
               Find(html_content, open, 0) + Len(open),
               Find(html_content, close, 0))
    ELSE <<>>

\* lines 790-800
HtmlContent(result_str) ==
    IF In(HtmlFenceLit, result_str)
    THEN LET html_start == Find(result_str, HtmlFenceLit, 0) + Len(HtmlFenceLit)
             html_end == Find(result_str, FenceLit, html_start)
         IN  Strip(Slice(result_str, html_start, html_end))
    ELSE Strip(result_str)

\* The try body is made of str.find, slicing and strip, none of which
\* raises on a str, so the except branch of lines 824-833 has no trigger.
\* generatedAt is the wall clock and is not kept.
parse_generated_code(llm_result, framework) ==
    LET html_content == HtmlContent(llm_result)
    IN  [html |-> html_content,
         css |-> Strip(TagContent(html_content, StyleOpenLit, StyleCloseLit)),
         javascript |-> Strip(TagContent(html_content, ScriptOpenLit, ScriptCloseLit)),
         framework |-> framework]

(***************************************************************************)
(* Python values a parser returns: str, list and dict, in one record shape *)
(* so that any two of them can be compared.  A dict keeps its items in     *)
(* insertion order; an item carries its key in s and its value in items.   *)
(***************************************************************************)
PyStr(s) == [t |-> "str", s |-> s, items |-> <<>>]
PyList(items) == [t |-> "list", s |-> <<>>, items |-> items]
PyItem(k, v) == [t |-> "item", s |-> k, items |-> <<v>>]
PyDict(items) == [t |-> "dict", s |-> <<>>, items |-> items]

\* key in d
HasItem(d, k) == \E i \in 1..Len(d.items) : d.items[i].s = k

\* d[k] = v: a repeated key keeps its place and takes the later value
SetItem(items, k, v) ==
    IF \E i \in 1..Len(items) : items[i].s = k
    THEN [i \in 1..Len(items) |-> IF items[i].s = k THEN PyItem(k, v) ELSE items[i]]
    ELSE Append(items, PyItem(k, v))

(***************************************************************************)
(* json.loads on a text made of the structural characters, the quote,      *)
(* whitespace and chunks of other characters.  The texts have no           *)
(* backslash, digit or literal name, so a value is an object, an array or  *)
(* a string.                                                               *)
(***************************************************************************)
Quote == "\""
JsonWhitespace == {" ", "\n", "\t", "\r"}
ControlChars == {"\n", "\t", "\r"}

JsonFail == [ok |-> FALSE, pos |-> 0, val |-> PyStr(<<>>)]
JsonOk(v, pos) == [ok |-> TRUE, pos |-> pos, val |-> v]

\* the first position >= i that holds no whitespace (Len(s) + 1 if none)
RECURSIVE SkipWs(_, _)
SkipWs(s, i) ==
    IF i <= Len(s) /\ s[i] \in JsonWhitespace THEN SkipWs(s, i + 1) ELSE i

\* the first position >= i that holds a quote or a control character
\* (Len(s) + 1 if none)
RECURSIVE StringStop(_, _)
StringStop(s, i) ==
    IF i <= Len(s) /\ s[i] # Quote /\ s[i] \notin ControlChars
    THEN StringStop(s, i + 1)
    ELSE i

\* a string whose opening quote is at position i
ParseString(s, i) ==
    LET j == StringStop(s, i + 1)
    IN  IF j <= Len(s) /\ s[j] = Quote
        THEN JsonOk(PyStr(SubSeq(s, i + 1, j - 1)), j + 1)
        ELSE JsonFail

RECURSIVE ParseValue(_, _), ParseMembers(_, _, _), ParseElements(_, _, _)

\* a value starting at position i
ParseValue(s, i) ==
    IF i > Len(s) THEN JsonFail
    ELSE IF s[i] = Quote THEN ParseString(s, i)
    ELSE IF s[i] = "{" THEN
        LET j == SkipWs(s, i + 1)
        IN  IF j <= Len(s) /\ s[j] = "}" THEN JsonOk(PyDict(<<>>), j + 1)
            ELSE ParseMembers(s, j, <<>>)
    ELSE IF s[i] = "[" THEN
        LET j == SkipWs(s, i + 1)
        IN  IF j <= Len(s) /\ s[j] = "]" THEN JsonOk(PyList(<<>>), j + 1)
            ELSE ParseElements(s, j, <<>>)
    ELSE JsonFail

\* the members of an object from the key at position i on, acc the items so far
ParseMembers(s, i, acc) ==
    IF i > Len(s) \/ s[i] # Quote THEN JsonFail
    ELSE LET key == ParseString(s, i)
         IN  IF ~key.ok THEN JsonFail
             ELSE LET c == SkipWs(s, key.pos)
                  IN  IF c > Len(s) \/ s[c] # ":" THEN JsonFail
                      ELSE LET v == ParseValue(s, SkipWs(s, c + 1))
                           IN  IF ~v.ok THEN JsonFail
                               ELSE LET items == SetItem(acc, key.val.s, v.val)
                                        e == SkipWs(s, v.pos)
                                    IN  IF e > Len(s) THEN JsonFail
                                        ELSE IF s[e] = "}" THEN JsonOk(PyDict(items), e + 1)
                                        ELSE IF s[e] = "," THEN ParseMembers(s, SkipWs(s, e + 1), items)
                                        ELSE JsonFail

\* the elements of an array from position i on, acc the elements so far
ParseElements(s, i, acc) ==
    LET v == ParseValue(s, i)
    IN  IF ~v.ok THEN JsonFail
        ELSE LET e == SkipWs(s, v.pos)
             IN  IF e > Len(s) THEN JsonFail
                 ELSE IF s[e] = "]" THEN JsonOk(PyList(Append(acc, v.val)), e + 1)
                 ELSE IF s[e] = "," THEN ParseElements(s, SkipWs(s, e + 1), Append(acc, v.val))
                 ELSE JsonFail

\* json.loads(s): one value, whitespace allowed around it, nothing after it;
\* ok = FALSE stands for JSONDecodeError
json_loads(s) ==
    LET v == ParseValue(s, SkipWs(s, 1))
    IN  IF v.ok /\ SkipWs(s, v.pos) = Len(s) + 1 THEN v ELSE JsonFail

(***************************************************************************)
(* create_fallback_code_structure and the naming tables                    *)
(***************************************************************************)
\* lines 953-966
get_file_extension(language) ==
    CASE language = <<"javascript">> -> <<"js">>
      [] language = <<"typescript">> -> <<"ts">>
      [] language = <<"python">> -> <<"py">>
      [] language = <<"java">> -> <<"java">>
      [] language = <<"csharp">> -> <<"cs">>
      [] language = <<"go">> -> <<"go">>
      [] language = <<"rust">> -> <<"rs">>
      [] language = <<"php">> -> <<"php">>
      [] language = <<"css">> -> <<"css">>
      [] language = <<"html">> -> <<"html">>
      [] language = <<"json">> -> <<"json">>
      [] OTHER -> <<"txt">>

\* 'first' if index == 0 else f'{stem}{index}{suffix}'
Indexed(first, stem, suffix, index) ==
    IF index = 0 THEN <<first>> ELSE <<stem>> \o Decimal(index) \o <<suffix>>

\* the table of one code_type: its languages do not overlap, so the
\* CASE arms are the if/elif chain
BackendName(language, index) ==
    CASE language = <<"python">> -> Indexed("main.py", "module_", ".py", index)
      [] language \in {<<"javascript">>, <<"typescript">>} ->
            Indexed("server.ts", "module_", ".ts", index)
      [] language = <<"java">> -> Indexed("Application.java", "Service_", ".java", index)
      [] language = <<"csharp">> -> Indexed("Program.cs", "Service_", ".cs", index)
      [] OTHER -> <<"code_">> \o Decimal(index) \o <<".">> \o get_file_extension(language)

FrontendName(language, index) ==
    CASE language \in {<<"javascript">>, <<"typescript">>} ->
            Indexed("App.tsx", "Component_", ".tsx", index)
      [] language = <<"python">> -> Indexed("app.py", "component_", ".py", index)
      [] OTHER -> <<"code_">> \o Decimal(index) \o <<".">> \o get_file_extension(language)

\* determine_filename without its code_type test
determine_filename_BackendOnly(language, code_type, index) == BackendName(language, index)

\* lines 928-947: every code_type other than 'backend' takes the else branch
determine_filename(language, code_type, index) ==
    IF code_type = <<"backend">>
    THEN BackendName(language, index)
    ELSE FrontendName(language, index)

\* lines 968-998
generate_project_structure(code_type, language) ==
    IF code_type = <<"backend">>
    THEN IF language = <<"python">>
         THEN <<"backend/ main.py requirements.txt models/ routes/ config/">>
         ELSE <<"backend/ src/ server.ts routes/ models/ config/ package.json tsconfig.json">>
    ELSE <<"frontend/ src/ App.tsx components/ pages/ styles/ public/ package.json">>

\* lines 1000-1010
generate_dependencies(code_type, language) ==
    IF code_type = <<"backend">>
    THEN IF language = <<"python">>
         THEN <<"fastapi", "uvicorn", "pydantic", "python-dotenv">>
         ELSE <<"express", "cors", "typescript", "ts-node", "@types/node">>
    ELSE <<"react", "react-dom", "typescript", "@types/react", "@types/react-dom">>

\* lines 1012-1022
generate_run_instructions(code_type, language) ==
    IF code_type = <<"backend">>
    THEN IF language = <<"python">>
         THEN <<"pip install -r requirements.txt && uvicorn main:app --reload">>
         ELSE <<"npm install && npm run dev">>
    ELSE <<"npm install && npm start">>

\* str.split('\n')
RECURSIVE Split(_)
Split(s) ==
    LET i == Find(s, <<"\n">>, 0)
    IN  IF i = -1 THEN <<s>>
        ELSE <<Slice(s, 0, i)>> \o Split(Slice(s, i + 1, Len(s)))

\* '\n'.join(lines)
RECURSIVE Join(_)
Join(lines) ==
    IF lines = <<>> THEN <<>>
    ELSE IF Len(lines) = 1 THEN lines[1]
    ELSE lines[1] \o <<"\n">> \o Join(Tail(lines))

\* str.replace(lit, ''), left to right
RECURSIVE Remove(_, _)
Remove(s, lit) ==
    LET i == Find(s, lit, 0)
    IN  IF i = -1 THEN s
        ELSE Slice(s, 0, i) \o Remove(Slice(s, i + Len(lit), Len(s)), lit)

\* line.strip().startswith(FenceLit), line 878
IsFenceLine(line) == HasAt(Strip(line), 1, FenceLit)

CodeBlock(language, content) == [language |-> language, content |-> content]

\* lines 877-892: the loop from line k on; current_block is NoneVal or
\* Some(tag)
RECURSIVE ScanLines(_, _, _, _, _, _)
ScanLines(lines, k, actual_language, current_block, current_content, code_blocks) ==
    IF k > Len(lines)
    THEN [current_block |-> current_block,
          current_content |-> current_content,
          code_blocks |-> code_blocks]
    ELSE IF IsFenceLine(lines[k])
    THEN IF current_block.present
         THEN ScanLines(lines, k + 1, actual_language, NoneVal, <<>>,
                        Append(code_blocks,
                               CodeBlock(current_block.value, Join(current_content))))
         ELSE LET tag == Strip(Remove(lines[k], FenceLit))
              IN  ScanLines(lines, k + 1, actual_language,
                            Some(IF tag = <<>> THEN actual_language ELSE tag),
                            current_content, code_blocks)
    ELSE IF current_block.present
    THEN ScanLines(lines, k + 1, actual_language, current_block,
                   Append(current_content, lines[k]), code_blocks)
    ELSE ScanLines(lines, k + 1, actual_language, current_block,
                   current_content, code_blocks)

\* CodeBlocks without lines 894-899: an unclosed final block is dropped
CodeBlocks_ClosedOnly(content, actual_language) ==
    LET end == ScanLines(Split(content), 1, actual_language, NoneVal, <<>>, <<>>)
    IN  IF end.code_blocks = <<>>
        THEN <<CodeBlock(actual_language, content)>>
        ELSE end.code_blocks

\* CodeBlocks whose whole-text block of lines 902-906 is stripped
CodeBlocks_WholeStripped(content, actual_language) ==
    LET end == ScanLines(Split(content), 1, actual_language, NoneVal, <<>>, <<>>)
        closed == IF end.current_block.present /\ end.current_content # <<>>
                  THEN Append(end.code_blocks,
                              CodeBlock(end.current_block.value, Join(end.current_content)))
                  ELSE end.code_blocks
    IN  IF closed = <<>> THEN <<CodeBlock(actual_language, Strip(content))>> ELSE closed

\* lines 870-906
CodeBlocks(content, actual_language) ==
    LET end == ScanLines(Split(content), 1, actual_language, NoneVal, <<>>, <<>>)
        closed == IF end.current_block.present /\ end.current_content # <<>>
                  THEN Append(end.code_blocks,
                              CodeBlock(end.current_block.value, Join(end.current_content)))
                  ELSE end.code_blocks
    IN  IF closed = <<>> THEN <<CodeBlock(actual_language, content)>> ELSE closed

\* lines 910-917
CodeFile(block, code_type, i) ==
    PyDict(<<PyItem(<<"filename">>, PyStr(determine_filename(block.language, code_type, i))),
             PyItem(<<"content">>, PyStr(block.content)),
             PyItem(<<"type">>, PyStr(IF i = 0 THEN <<"main">> ELSE <<"component">>)),
             PyItem(<<"language">>, PyStr(block.language))>>)

\* lines 866-926
create_fallback_code_structure(content, code_type, language) ==
    LET actual_language == IF language # <<"auto">> THEN language ELSE <<"typescript">>
        code_blocks == CodeBlocks(content, actual_language)
        files == [i \in 1..Len(code_blocks) |-> CodeFile(code_blocks[i], code_type, i - 1)]
        deps == generate_dependencies(code_type, actual_language)
    IN  PyDict(<<PyItem(<<"language">>, PyStr(actual_language)),
                 PyItem(<<"codeType">>, PyStr(code_type)),
                 PyItem(<<"files">>, PyList(files)),
                 PyItem(<<"projectStructure">>,
                        PyStr(generate_project_structure(code_type, actual_language))),
                 PyItem(<<"dependencies">>,
                        PyList([i \in 1..Len(deps) |-> PyStr(<<deps[i]>>)])),
                 PyItem(<<"runInstructions">>,
                        PyStr(generate_run_instructions(code_type, actual_language)))>>)

(***************************************************************************)
(* parse_generated_code_response: the CodeBundle extractor                 *)
(***************************************************************************)
RequiredKeys == {<<"language">>, <<"codeType">>, <<"files">>}

\* parse_generated_code_response that asks for two of the three keys
parse_generated_code_response_TwoKeys(llm_result, code_type, language) ==
    LET json_start == Find(llm_result, <<"{">>, 0)
        json_end == RFind(llm_result, <<"}">>) + 1
        parsed_response == json_loads(Slice(llm_result, json_start, json_end))
    IN  IF /\ json_start # -1
           /\ json_end > json_start
           /\ parsed_response.ok
           /\ \A key \in {<<"language">>, <<"codeType">>} : HasItem(parsed_response.val, key)
        THEN parsed_response.val
        ELSE create_fallback_code_structure(llm_result, code_type, language)

\* lines 845-860.  The span starts at a "{", so what json.loads returns
\* for it is a dict.  The outer except of lines 862-864 returns the same
\* fallback as line 860.
parse_generated_code_response(llm_result, code_type, language) ==
    LET json_start == Find(llm_result, <<"{">>, 0)
        json_end == RFind(llm_result, <<"}">>) + 1
        parsed_response == json_loads(Slice(llm_result, json_start, json_end))
    IN  IF /\ json_start # -1
           /\ json_end > json_start
           /\ parsed_response.ok
           /\ \A key \in RequiredKeys : HasItem(parsed_response.val, key)
        THEN parsed_response.val
        ELSE create_fallback_code_structure(llm_result, code_type, language)

(***************************************************************************)
(* The texts given to the two extractors                                   *)
(***************************************************************************)
RECURSIVE ConcatsOf(_, _)
ConcatsOf(segments, k) ==
    IF k = 0 THEN {<<>>}
    ELSE LET shorter == ConcatsOf(segments, k - 1)
         IN  shorter \cup {t \o s : t \in shorter, s \in segments}

HtmlSegments ==
    { HtmlFenceLit, FenceLit, DoctypeLit,
      StyleOpenLit, StyleCloseLit, ScriptOpenLit, ScriptCloseLit,
      <<"a">>, <<" ">> }

HtmlTexts == ConcatsOf(HtmlSegments, MaxHtmlSegs)

Frameworks == {"react", "vue"}

\* "language":"python" and the like
Member(k, v) == <<Quote, k, Quote, ":">> \o v
StrLit(w) == <<Quote, w, Quote>>

OpenLanguage == <<"{">> \o Member("language", StrLit("python"))
CommaCodeType == <<",">> \o Member("codeType", StrLit("backend"))
CommaFiles == <<",">> \o Member("files", <<"[", "]">>)
FullObject == OpenLanguage \o CommaCodeType \o CommaFiles \o <<"}">>
OpenGoLine == FenceLit \o <<"go", "\n">>
FenceOnlyLine == FenceLit \o <<"\n">>
ContentLine == <<"x", "\n">>

CodeSegments ==
    { OpenLanguage, CommaCodeType, CommaFiles, <<"}">>, FullObject,
      OpenGoLine, FenceOnlyLine, ContentLine, <<" ">> }

CodeTexts == ConcatsOf(CodeSegments, MaxCodeSegs)

CodeTypes == {<<"backend">>, <<"frontend">>}
Languages == {<<"auto">>, <<"python">>}

\* the texts a provider returns on the routes: for the two extractors a
\* few of each shape
DesignSamples ==
    { <<>>,
      <<"a">>,
      HtmlFenceLit \o <<"a">> \o FenceLit,
      HtmlFenceLit \o <<"a">>,
      <<"a">> \o DoctypeLit \o StyleOpenLit \o <<"a">> \o StyleCloseLit }

CodeSamples ==
    { <<>>,
      ContentLine,
      FullObject,
      OpenLanguage \o <<"}">>,
      OpenGoLine \o ContentLine \o FenceOnlyLine,
      OpenGoLine \o ContentLine }

ProviderTexts(r) ==
    CASE r = "design" -> DesignSamples
      [] r = "codegen" -> CodeSamples
      [] OTHER -> Texts

(***************************************************************************)
(* POST /generate-design-code, /generate-code, /review-code                *)
(***************************************************************************)
DirectRoutes == {"design", "codegen", "review"}

\* lines 558-567, 631-640, 710-719: the vendor client the route constructs
DirectLlm(request) ==
    IF request.llm_provider = "google"
    THEN AgentObj("google", request.model)
    ELSE AgentObj("openai", "gpt-4")

\* str(e) of a failing client constructor (a missing or rejected API key)
LlmInitErrors == {<<"authentication">>}

\* str(e) of the NameError at line 751: the module defines no
\* parse_code_review_response
ReviewParserNameError == <<"name 'parse_code_review_response' is not defined">>

SuccessText(r) ==
    IF r = "review" THEN "Code review completed successfully in"
    ELSE "Code generated successfully in"

FailureText(r) ==
    IF r = "review" THEN "Code review failed after"
    ELSE "Code generation failed after"

\* the payload of a success response: the extractor the route applies
\* (parse_generated_code at 592, parse_generated_code_response at 672)
Payload(r, request, text) ==
    IF r = "design"
    THEN parse_generated_code(text, request.framework)
    ELSE parse_generated_code_response(text, request.codeType, request.language)

\* lines 573-577, 646-650, 725-729
InitFailure(m) ==
    [success |-> FALSE,
     data |-> NoneVal,
     message |-> [text |-> "Failed to initialize LLM", elapsed |-> NoneVal],
     error |-> Some(m)]

\* mutant: a failed generation is answered with a synthetic payload
GenerationFailure_Mocked(r, m, execution_time) ==
    [success |-> TRUE,
     data |-> Some([parser |-> "mock", text |-> <<>>]),
     message |-> [text |-> FailureText(r), elapsed |-> Some(execution_time)],
     error |-> Some(m)]

\* lines 600-608, 680-688, 759-767
GenerationFailure(r, m, execution_time) ==
    [success |-> FALSE,
     data |-> NoneVal,
     message |-> [text |-> FailureText(r), elapsed |-> Some(execution_time)],
     error |-> Some(m)]

\* lines 594-598, 674-678
GenerationSuccess(r, request, text, execution_time) ==
    [success |-> TRUE,
     data |-> Some(Payload(r, request, text)),
     message |-> [text |-> SuccessText(r), elapsed |-> Some(execution_time)],
     error |-> NoneVal]

\* lines 557-577, 630-650, 709-729
DirectCreateLlm ==
    /\ route \in DirectRoutes /\ pc = "llm"
    /\ \/ /\ agent' = DirectLlm(req)
          /\ pc' = "invoke"
          /\ resp' = resp
       \/ \E m \in LlmInitErrors :
             /\ resp' = InitFailure(m)
             /\ pc' = "done"
             /\ agent' = agent
    /\ UNCHANGED fsvars
    /\ UNCHANGED <<route, req, fallback_agent, result, err, fallback_error,
                   calls, raised>>

\* lines 580-608, 660-688, 739-767
DirectInvoke ==
    /\ route \in DirectRoutes /\ pc = "invoke"
    /\ calls' = Append(calls, Call(agent, "full_prompt"))
    /\ pc' = "done"
    /\ \E execution_time \in 0..MaxElapsed :
          \/ \E text \in ProviderTexts(route) :
                /\ result' = Some(text)
                /\ IF route = "review"
                   THEN /\ err' = Some(ReviewParserNameError)
                        /\ resp' = GenerationFailure(route, ReviewParserNameError,
                                                     execution_time)
                   ELSE /\ err' = err
                        /\ resp' = GenerationSuccess(route, req, text, execution_time)
          \/ \E m \in ErrMsgs :
                /\ err' = Some(m)
                /\ result' = result
                /\ resp' = GenerationFailure(route, m, execution_time)
    /\ UNCHANGED fsvars
    /\ UNCHANGED <<route, req, agent, fallback_agent, fallback_error, raised>>

(***************************************************************************)
(* The directory ./screenshots                                             *)
(*                                                                         *)
(* The server is one process with one event loop (uvicorn.run, line 1139): *)
(* a handler gives the loop up only at an await, so the os calls of one    *)
(* handler (exists, listdir, remove) are not interleaved with another      *)
(* handler's.  Other processes (the browser driver that saves the          *)
(* screenshots, anything else that owns the directory) run in parallel     *)
(* and can act between any two os calls.                                   *)
(***************************************************************************)
FileNames == {<<"a", ".png">>, <<"b", ".jpg">>, <<"n", ".txt">>}

\* f.endswith(('.png', '.jpg', '.jpeg'))
IsScreenshot(f) == f[Len(f)] \in {".png", ".jpg", ".jpeg"}

NoDir == [exists |-> FALSE, files |-> {}]
Dir(files) == [exists |-> TRUE, files |-> files]

\* str(e) of the FileNotFoundError of os.listdir or os.remove
NoSuchFileError == <<"No such file or directory">>

FsProcs == {"list", "clear1", "clear2"}
ClearProcs == {"clear1", "clear2"}

Pending == [pending |-> TRUE]
Idle == [pc |-> "start", todo |-> {}, resp |-> Pending]

FsIdle ==
    /\ fs = NoDir
    /\ procs = [p \in FsProcs |-> Idle]
    /\ loop = "none"
    /\ env_steps = 0

\* the browser driver saves a screenshot, creating the directory if needed
EnvSaveScreenshot ==
    /\ env_steps < MaxEnvSteps
    /\ \E f \in FileNames : fs' = Dir(fs.files \cup {f})
    /\ env_steps' = env_steps + 1
    /\ UNCHANGED <<route, req, pc, agent, fallback_agent, result, err, fallback_error,
                   calls, resp, raised, procs, loop>>

\* another process removes one entry
EnvRemoveFile ==
    /\ env_steps < MaxEnvSteps
    /\ \E f \in fs.files : fs' = Dir(fs.files \ {f})
    /\ env_steps' = env_steps + 1
    /\ UNCHANGED <<route, req, pc, agent, fallback_agent, result, err, fallback_error,
                   calls, resp, raised, procs, loop>>

\* another process removes the directory
EnvRemoveDir ==
    /\ env_steps < MaxEnvSteps
    /\ fs.exists
    /\ fs' = NoDir
    /\ env_steps' = env_steps + 1
    /\ UNCHANGED <<route, req, pc, agent, fallback_agent, result, err, fallback_error,
                   calls, resp, raised, procs, loop>>

(***************************************************************************)
(* GET /screenshots and POST /clear-screenshots                            *)
(***************************************************************************)
\* lines 1112-1116; the list is in the order of os.listdir, which is not
\* fixed: it is kept as the set of its entries
ListSuccess(screenshots) ==
    [success |-> TRUE, screenshots |-> screenshots, count |-> Cardinality(screenshots)]

\* lines 1117-1122
ListFailure(m) == [success |-> FALSE, error |-> m, screenshots |-> {}]

\* line 1133
ClearSuccess == [success |-> TRUE, message |-> "Screenshots cleared"]

\* lines 1134-1135
ClearFailure(m) == [success |-> FALSE, error |-> m]

Finish(p, response) ==
    /\ procs' = [procs EXCEPT ![p] = [pc |-> "done", todo |-> {}, resp |-> response]]
    /\ loop' = "none"

\* lines 1108-1109: os.path.exists
ListExists ==
    /\ procs["list"].pc = "start" /\ loop = "none"
    /\ IF fs.exists
       THEN /\ procs' = [procs EXCEPT !["list"].pc = "listdir"]
            /\ loop' = "list"
       ELSE Finish("list", ListSuccess({}))
    /\ UNCHANGED <<route, req, pc, agent, fallback_agent, result, err, fallback_error,
                   calls, resp, raised, fs, env_steps>>

\* lines 1110-1122: os.listdir and the response
ListListdir ==
    /\ procs["list"].pc = "listdir"
    /\ IF fs.exists
       THEN Finish("list", ListSuccess({f \in fs.files : IsScreenshot(f)}))
       ELSE Finish("list", ListFailure(NoSuchFileError))
    /\ UNCHANGED <<route, req, pc, agent, fallback_agent, result, err, fallback_error,
                   calls, resp, raised, fs, env_steps>>

\* line 1128: os.path.exists
ClearExists ==
    \E p \in ClearProcs :
        /\ procs[p].pc = "start" /\ loop = "none"
        /\ IF fs.exists
           THEN /\ procs' = [procs EXCEPT ![p].pc = "listdir"]
                /\ loop' = p
           ELSE Finish(p, ClearSuccess)
        /\ UNCHANGED <<route, req, pc, agent, fallback_agent, result, err, fallback_error,
                       calls, resp, raised, fs, env_steps>>

\* line 1129: os.listdir; todo is what the loop has still to visit, the
\* entries the test of line 1130 passes
ClearListdir ==
    \E p \in ClearProcs :
        /\ procs[p].pc = "listdir"
        /\ IF fs.exists
           THEN /\ procs' = [procs EXCEPT ![p] = [pc |-> "remove",
                                                  todo |-> {f \in fs.files : IsScreenshot(f)},
                                                  resp |-> Pending]]
                /\ loop' = loop
           ELSE Finish(p, ClearFailure(NoSuchFileError))
        /\ UNCHANGED <<route, req, pc, agent, fallback_agent, result, err, fallback_error,
                       calls, resp, raised, fs, env_steps>>

\* lines 1129-1135: one os.remove, or the response once the loop has ended
ClearRemove ==
    \E p \in ClearProcs :
        /\ procs[p].pc = "remove"
        /\ IF procs[p].todo = {}
           THEN /\ Finish(p, ClearSuccess)
                /\ fs' = fs
           ELSE \E f \in procs[p].todo :
                   IF f \in fs.files
                   THEN /\ fs' = Dir(fs.files \ {f})
                        /\ procs' = [procs EXCEPT ![p].todo = @ \ {f}]
                        /\ loop' = loop
                   ELSE /\ Finish(p, ClearFailure(NoSuchFileError))
                        /\ fs' = fs
        /\ UNCHANGED <<route, req, pc, agent, fallback_agent, result, err, fallback_error,
                       calls, resp, raised, env_steps>>

(***************************************************************************)
(* POST /execute-test-case                                                 *)
(***************************************************************************)
PlaywrightClientError == <<"Failed to create playwright MCP client">>

\* the outcomes of `await get_agent(request.llm_provider, request.model)`,
\* line 303
AwaitedAgent(llm_provider, model) ==
    {o \in get_agent(llm_provider, model) :
        o \notin {Returned(CoroutineObj), Raised(McpClientError)}}
    \cup {Raised(PlaywrightClientError)}

\* what the agent returns for the test
TestTexts == {<<"o","k"," ">>}

\* str(e) of what agent.run raises: one message per branch of lines 339-348
TestErrMsgs ==
    { <<"Browser is already in use">>,
      <<"certificate verify failed">>,
      <<"SSL">>,
      <<"API key">>,
      <<"authentication">>,
      <<"Connection error">>,
      <<"timeout">> }

\* lines 339-348
TestErrorMsg(error_msg) ==
    IF Contains(error_msg, "Browser is already in use")
    THEN <<"Browser Profile Conflict: The browser profile is locked.", "Original error: ">>
         \o error_msg
    ELSE IF Contains(error_msg, "certificate verify failed") \/ Contains(error_msg, "SSL")
    THEN <<"SSL Certificate Error: Unable to verify API certificate.">>
    ELSE IF Contains(error_msg, "API key") \/ Contains(error_msg, "authentication")
    THEN <<"API Authentication Error: Please check your API key.">>
    ELSE IF Contains(error_msg, "Connection error")
    THEN <<"Connection Error: Unable to connect to the API.">>
    ELSE error_msg

\* lines 327-332
TestSuccess(text, screenshots, execution_time) ==
    [result |-> text,
     success |-> TRUE,
     error |-> NoneVal,
     screenshots |-> screenshots,
     execution_time |-> execution_time]

\* lines 334-357
TestFailure(m, execution_time) ==
    [result |-> <<>>,
     success |-> FALSE,
     error |-> Some(TestErrorMsg(m)),
     screenshots |-> {},
     execution_time |-> execution_time]

\* lines 301-303, 334-357
TestGetAgent ==
    /\ route = "test" /\ pc = "agent"
    /\ \E o \in AwaitedAgent(req.llm_provider, req.model) :
          IF o.raises
          THEN /\ err' = Some(o.msg)
               /\ \E execution_time \in 0..MaxElapsed :
                     resp' = TestFailure(o.msg, execution_time)
               /\ pc' = "done"
               /\ agent' = agent
          ELSE /\ agent' = o.value
               /\ pc' = "run"
               /\ UNCHANGED <<err, resp>>
    /\ UNCHANGED fsvars
    /\ UNCHANGED <<route, req, fallback_agent, result, fallback_error, calls, raised>>

\* lines 315, 334-357: the await ends with the agent's text or an exception
TestRun ==
    /\ route = "test" /\ pc = "run"
    /\ calls' = Append(calls, Call(agent, "prompt"))
    /\ \/ \E text \in TestTexts :
             /\ result' = Some(text)
             /\ pc' = "exists"
             /\ UNCHANGED <<err, resp>>
       \/ \E m \in TestErrMsgs, execution_time \in 0..MaxElapsed :
             /\ err' = Some(m)
             /\ resp' = TestFailure(m, execution_time)
             /\ pc' = "done"
             /\ result' = result
    /\ UNCHANGED fsvars
    /\ UNCHANGED <<route, req, agent, fallback_agent, fallback_error, raised>>

\* lines 318-319: os.path.exists
TestExists ==
    /\ route = "test" /\ pc = "exists" /\ loop = "none"
    /\ IF fs.exists
       THEN /\ pc' = "listdir"
            /\ loop' = "test"
            /\ resp' = resp
       ELSE /\ pc' = "done"
            /\ loop' = loop
            /\ \E execution_time \in 0..MaxElapsed :
                  resp' = TestSuccess(result.value, {}, execution_time)
    /\ UNCHANGED <<route, req, agent, fallback_agent, result, err, fallback_error,
                   calls, raised, fs, procs, env_steps>>

\* lines 320-332, 334-357: os.listdir inside the try of the whole handler
TestListdir ==
    /\ route = "test" /\ pc = "listdir"
    /\ pc' = "done"
    /\ loop' = "none"
    /\ \E execution_time \in 0..MaxElapsed :
          IF fs.exists
          THEN /\ resp' = TestSuccess(result.value,
                                      {<<"./screenshots/">> \o f :
                                          f \in {g \in fs.files : IsScreenshot(g)}},
                                      execution_time)
               /\ err' = err
          ELSE /\ resp' = TestFailure(NoSuchFileError, execution_time)
               /\ err' = Some(NoSuchFileError)
    /\ UNCHANGED <<route, req, agent, fallback_agent, result, fallback_error,
                   calls, raised, fs, procs, env_steps>>

(***************************************************************************)
(* The requests and the specification                                      *)
(***************************************************************************)
Routes == {"jira"} \cup DirectRoutes

\* JiraIssueRequest: summary, description, issueType and priority only reach
\* the prompt text; the other request models: the prompts, framework,
\* codeType and language reach the prompt and the parsers
Requests(r) ==
    IF r = "jira"
    THEN [project : Projects, llm_provider : ProviderNames, model : ModelNames]
    ELSE IF r = "design"
    THEN [llm_provider : ProviderNames, model : ModelNames, framework : Frameworks]
    ELSE [llm_provider : ProviderNames, model : ModelNames,
          codeType : CodeTypes, language : Languages]

Init ==
    /\ route \in Routes
    /\ req \in Requests(route)
    /\ pc = IF route = "jira" THEN "client" ELSE "llm"
    /\ agent = NoneObj
    /\ fallback_agent = NoneObj
    /\ result = NoneVal
    /\ err = NoneVal
    /\ fallback_error = NoneVal
    /\ calls = <<>>
    /\ resp = NoResp
    /\ raised = FALSE
    /\ FsIdle

Next ==
    \/ JiraCreateClient
    \/ JiraGetAgent
    \/ JiraRun
    \/ JiraFallbackAgent
    \/ JiraRetry
    \/ DirectCreateLlm
    \/ DirectInvoke

Spec == Init /\ [][Next]_vars

(***************************************************************************)
(* The two extractors on their own: the provider has returned a text, the  *)
(* handler goes on from line 589 (design) or line 669 (codegen)            *)
(***************************************************************************)
ExtractRoutes == {"design", "codegen"}

TextReturned(r, texts) ==
    /\ route = r
    /\ req \in {q \in Requests(r) : q.llm_provider = "google" /\ q.model = "gemini-2.5-pro"}
    /\ pc = "extract"
    /\ agent = DirectLlm(req)
    /\ fallback_agent = NoneObj
    /\ result \in {Some(t) : t \in texts}
    /\ err = NoneVal
    /\ fallback_error = NoneVal
    /\ calls = <<Call(agent, "full_prompt")>>
    /\ resp = NoResp
    /\ raised = FALSE
    /\ FsIdle

\* lines 589-598, 669-678; the elapsed time was read at 584 / 664
Extract ==
    /\ route \in ExtractRoutes /\ pc = "extract"
    /\ resp' = GenerationSuccess(route, req, result.value, 0)
    /\ pc' = "done"
    /\ UNCHANGED fsvars
    /\ UNCHANGED <<route, req, agent, fallback_agent, result, err, fallback_error,
                   calls, raised>>

InitHtml == TextReturned("design", HtmlTexts)
SpecHtml == InitHtml /\ [][Extract]_vars

InitCode == TextReturned("codegen", CodeTexts)
SpecCode == InitCode /\ [][Extract]_vars

(***************************************************************************)
(* The requests that touch ./screenshots, side by side: one test           *)
(* execution, one listing and two clears                                   *)
(***************************************************************************)
InitFs ==
    /\ route = "test"
    /\ req \in [llm_provider : {"google", "bogus"}, model : {"gemini-2.5-pro"}]
    /\ pc = "agent"
    /\ agent = NoneObj
    /\ fallback_agent = NoneObj
    /\ result = NoneVal
    /\ err = NoneVal
    /\ fallback_error = NoneVal
    /\ calls = <<>>
    /\ resp = Pending
    /\ raised = FALSE
    /\ fs \in {NoDir} \cup {Dir(files) : files \in SUBSET FileNames}
    /\ procs = [p \in FsProcs |-> Idle]
    /\ loop = "none"
    /\ env_steps = 0

NextFs ==
    \/ TestGetAgent
    \/ TestRun
    \/ TestExists
    \/ TestListdir
    \/ ListExists
    \/ ListListdir
    \/ ClearExists
    \/ ClearListdir
    \/ ClearRemove
    \/ EnvSaveScreenshot
    \/ EnvRemoveFile
    \/ EnvRemoveDir

SpecFs == InitFs /\ [][NextFs]_vars

TypeOK ==
    /\ route \in Routes
    /\ pc \in {"client", "agent", "run", "fallback_agent", "retry", "llm", "invoke",
              "extract", "done"}
    /\ raised \in BOOLEAN
    /\ Len(calls) <= 2

(***************************************************************************)
(* Vocabulary of the properties, stated on the text and the response       *)
(* themselves, independently of the operators that model the code          *)
(***************************************************************************)
JiraDone == route = "jira" /\ pc = "done"

\* k has the shape [A-Z]+-[0-9]+
IsKeyShaped(k) ==
    \E u \in 1..Len(k) :
        /\ \A i \in 1..u : k[i] \in UpperChars
        /\ u + 1 < Len(k)
        /\ k[u + 1] = "-"
        /\ \A i \in (u + 2)..Len(k) : k[i] \in DigitChars

\* u has the shape https://<host>.atlassian.net/browse/<KEY>, <host> non-empty, no "/"
IsUrlShaped(u) ==
    \E j \in (Len(HttpsLit) + 1)..Len(u) :
        /\ HasAt(u, 1, HttpsLit)
        /\ \A i \in (Len(HttpsLit) + 1)..j : u[i] # "/"
        /\ HasAt(u, j + 1, AtlassianBrowseLit)
        /\ IsKeyShaped(SubSeq(u, j + 1 + Len(AtlassianBrowseLit), Len(u)))

\* a match of the key pattern starts at position i of s
KeyStartsAt(s, i) ==
    \E u \in i..Len(s) :
        /\ \A k \in i..u : s[k] \in UpperChars
        /\ u + 2 <= Len(s)
        /\ s[u + 1] = "-"
        /\ s[u + 2] \in DigitChars

HasKey(s) == \E i \in 1..Len(s) : KeyStartsAt(s, i)

\* a match of the URL pattern starts at position i of s
UrlStartsAt(s, i) ==
    /\ HasAt(s, i, HttpsLit)
    /\ \E j \in (i + Len(HttpsLit))..Len(s) :
          /\ \A k \in (i + Len(HttpsLit))..j : s[k] # "/"
          /\ HasAt(s, j + 1, AtlassianBrowseLit)
          /\ KeyStartsAt(s, j + 1 + Len(AtlassianBrowseLit))

HasUrl(s) == \E i \in 1..Len(s) : UrlStartsAt(s, i)

\* k is the first match of the key pattern in s, taken as it stands in s
IsFirstKeyOf(k, s) ==
    /\ IsKeyShaped(k)
    /\ \E i \in 1..Len(s) :
          /\ HasAt(s, i, k)
          /\ \A j \in 1..(i - 1) : ~KeyStartsAt(s, j)
          /\ (i + Len(k) <= Len(s) => s[i + Len(k)] \notin DigitChars)

\* u is the first match of the URL pattern in s, taken as it stands in s
IsFirstUrlOf(u, s) ==
    /\ IsUrlShaped(u)
    /\ \E i \in 1..Len(s) :
          /\ HasAt(s, i, u)
          /\ \A j \in 1..(i - 1) : ~UrlStartsAt(s, j)
          /\ (i + Len(u) <= Len(s) => s[i + Len(u)] \notin DigitChars)

\* key = <project>-<n decimal digits>
IsProjectNumberKey(key, project, n) ==
    /\ Len(key) = Len(project) + 1 + n
    /\ SubSeq(key, 1, Len(project)) = project
    /\ key[Len(project) + 1] = "-"
    /\ \A i \in (Len(project) + 2)..Len(key) : key[i] \in DigitChars

\* ^{project}-\d{1,4}$
IsPlaceholderKey(key, project) ==
    \E n \in 1..4 : IsProjectNumberKey(key, project, n)

\* {project}-{a number of 1000..9999}
IsFourDigitMockKey(key, project) ==
    /\ IsProjectNumberKey(key, project, 4)
    /\ key[Len(project) + 2] # "0"

\* the browse URL of `key` on the fixed placeholder domain
PlaceholderUrl(key) ==
    <<"h","t","t","p","s",":","/","/",
      "r","o","w","e","n",".","a","t","l","a","s","s","i","a","n",".","n","e","t",
      "/","b","r","o","w","s","e","/">> \o key

\* FailureSignature of a message: ValidationShapeError is tested first (it is
\* the only test create_jira_issue makes), then the auth / connection phrasing
ClassifiedValidationShape(m) ==
    \E i, j \in 1..Len(m) : Lower(m[i]) = "validation error" /\ m[j] = "DynamicModel"

ClassifiedAuthOrConnection(m) ==
    /\ ~ClassifiedValidationShape(m)
    /\ \E i \in 1..Len(m) :
          Lower(m[i]) \in {"authentication", "oauth", "connection error"}

\* the message discloses that the issue is a development-mode placeholder
DisclosesPlaceholder(message) == message = MsgMock

\* the response's key and URL were parsed from the provider's text
ParsedFromText ==
    /\ result.present
    /\ HasKey(result.value)
    /\ HasUrl(result.value)
    /\ IsFirstKeyOf(resp.issue_key, result.value)
    /\ IsFirstUrlOf(resp.issue_url, result.value)

(***************************************************************************)
(* C1..C10: the issue-creation fallback policy and the direct routes       *)
(***************************************************************************)
IsJiraIssueResponse(r) ==
    /\ DOMAIN r = {"success", "issue_key", "issue_url", "message"}
    /\ r.success \in BOOLEAN
    /\ r.message \in {MsgCreated, MsgUnclear, MsgMock}
    /\ \A i \in 1..Len(r.issue_key) : r.issue_key[i] \in STRING
    /\ \A i \in 1..Len(r.issue_url) : r.issue_url[i] \in STRING

\* C1: whatever the bridge construction, the agent construction, the first
\* call and the retry call do (return text, return empty text, raise), the
\* issue-creation handler never lets an exception escape, every step before
\* the terminal one can be taken, and the terminal state holds a typed
\* JiraIssueResponse.
C1_AlwaysTypedResponse ==
    route = "jira" =>
        /\ ~raised
        /\ (pc # "done" => ENABLED Next)
        /\ (pc = "done" => IsJiraIssueResponse(resp))

\* C1 witness: the first call raised, the retry call raised too, and the
\* handler still returned a response.
C1_Witness ==
    /\ JiraDone
    /\ Len(calls) = 2
    /\ err.present /\ fallback_error.present
    /\ IsJiraIssueResponse(resp)

\* C2 (as claimed): a non-empty provider text without any issue key ends in
\* success=true with a key of the form {project}-{1 to 4 digits}.
C2_NoKeyGivesPlaceholderKey ==
    (JiraDone /\ result.present /\ result.value # <<>> /\ ~HasKey(result.value))
        => (resp.success /\ IsPlaceholderKey(resp.issue_key, req.project))

\* C3 (as claimed): a provider text with an issue key but no Atlassian browse
\* URL ends in a response carrying the first key of the text and the
\* placeholder-domain URL built from that key.
C3_KeyWithoutUrlGivesTemplateUrl ==
    (JiraDone /\ result.present /\ HasKey(result.value) /\ ~HasUrl(result.value))
        => /\ IsFirstKeyOf(resp.issue_key, result.value)
           /\ resp.issue_url = PlaceholderUrl(resp.issue_key)

\* C4: a provider text with a well-formed key and a well-formed Atlassian
\* browse URL ends in a success response whose issue_key is the first key
\* match and whose issue_url is the first URL match, both exactly as they
\* stand in the text.
C4_KeyAndUrlReturnedUnchanged ==
    (JiraDone /\ result.present /\ HasKey(result.value) /\ HasUrl(result.value))
        => /\ resp.success
           /\ IsFirstKeyOf(resp.issue_key, result.value)
           /\ IsFirstUrlOf(resp.issue_url, result.value)

\* C4 witness: the text holds a key before a URL that names another key.
C4_Witness ==
    /\ JiraDone
    /\ result.present /\ HasKey(result.value) /\ HasUrl(result.value)
    /\ resp.issue_key = <<"B","-","2","2">>
    /\ resp.issue_url = HttpsLit \o <<"x">> \o AtlassianBrowseLit \o <<"A","-","1">>

\* a ValidationShapeError was raised by the first provider call
FirstCallShapeError ==
    /\ Len(calls) >= 1
    /\ err.present
    /\ ClassifiedValidationShape(err.value)

\* C5 (as claimed): after a ValidationShapeError on the first call exactly one
\* retry call is made before the terminal response; the provider is invoked
\* at most twice, and a second time only after such an error.
C5_ExactlyOneRetry ==
    route = "jira" =>
        /\ Len(calls) <= 2
        /\ (Len(calls) = 2 => FirstCallShapeError)
        /\ (pc = "done" /\ FirstCallShapeError => Len(calls) = 2)

\* C5 (amended): after a ValidationShapeError on the first call the handler
\* asks for the fallback agent before any terminal response and makes the
\* retry call exactly when it obtained one; a second invocation happens
\* only after such an error, uses the simplified prompt, and there is never
\* a third.
C5_RetryWhenFallbackAgentObtained ==
    route = "jira" =>
        /\ Len(calls) <= 2
        /\ (Len(calls) = 2 =>
              /\ FirstCallShapeError
              /\ calls[1].prompt = "create_prompt"
              /\ calls[2].prompt = "simplified_prompt")
        /\ (pc = "done" /\ FirstCallShapeError =>
              /\ fallback_agent.kind = "agent" <=> Len(calls) = 2
              /\ fallback_agent.kind # "agent" => fallback_error.present)
        /\ (fallback_agent # NoneObj => FirstCallShapeError)

\* C5 witness: the retry call was made after a ValidationShapeError and the
\* handler has returned.
C5_Witness ==
    /\ JiraDone
    /\ FirstCallShapeError
    /\ Len(calls) = 2
    /\ fallback_agent.kind = "agent"

\* C6 (as claimed): the retry call goes to another provider than the call
\* that failed.
C6_RetryUsesDifferentProvider ==
    (route = "jira" /\ Len(calls) = 2) => calls[2].vendor # calls[1].vendor

\* C7: an AuthOrConnectionError raised by the first call is not retried: the
\* provider was invoked exactly once, no fallback agent was requested, and
\* the response is the placeholder success.
C7_AuthErrorNotRetried ==
    (JiraDone /\ Len(calls) >= 1 /\ err.present
       /\ ClassifiedAuthOrConnection(err.value))
        => /\ Len(calls) = 1
           /\ fallback_agent = NoneObj
           /\ ~fallback_error.present
           /\ resp.success
           /\ resp.message = MsgMock
           /\ IsFourDigitMockKey(resp.issue_key, req.project)

\* C7 witness: the first call raised an OAuth / authentication message.
C7_Witness ==
    /\ JiraDone
    /\ Len(calls) = 1
    /\ err.present /\ ClassifiedAuthOrConnection(err.value)
    /\ resp.message = MsgMock

\* the retry call was made and raised
RetryCallFailed ==
    /\ Len(calls) = 2
    /\ fallback_error.present
    /\ ~result.present

\* C8: when the first call and the retry call both fail the response is
\* success=true with the key {project}-{number of 1000..9999} and the
\* placeholder-domain browse URL of that same key.
C8_BothFailGivesMock ==
    (JiraDone /\ RetryCallFailed)
        => /\ resp.success
           /\ IsFourDigitMockKey(resp.issue_key, req.project)
           /\ resp.issue_url = PlaceholderUrl(resp.issue_key)

\* C8 witness: both calls raised and the mock issue was returned.
C8_Witness ==
    /\ JiraDone
    /\ RetryCallFailed
    /\ FirstCallShapeError
    /\ resp.issue_key = <<"A","-","9","9","9","9">>

\* C9 (as claimed): a success response confirms a created issue only if key
\* and URL were parsed from the provider's text, and every success response
\* whose key was not parsed discloses that it is a placeholder.
C9_SynthesizedKeyIsDisclosed ==
    (JiraDone /\ resp.success)
        => /\ (resp.message = MsgCreated => ParsedFromText)
           /\ (~ParsedFromText => DisclosesPlaceholder(resp.message))

\* the provider invocation of a direct route raised
DirectProviderRaised ==
    /\ route \in DirectRoutes
    /\ pc = "done"
    /\ Len(calls) >= 1
    /\ ~result.present
    /\ err.present

\* C10: on the design, code-generation and code-review routes an exception of
\* the provider invocation comes back as success=false with the exception
\* message as error, a message carrying the elapsed time and no data; the
\* provider was invoked exactly once.
C10_DirectFailureSurfaced ==
    DirectProviderRaised
        => /\ ~resp.success
           /\ resp.error = Some(err.value)
           /\ resp.message.elapsed.present
           /\ resp.message.text = FailureText(route)
           /\ ~resp.data.present
           /\ Len(calls) = 1

\* C10 witness: the review route's provider raised an SSL message.
C10_Witness ==
    /\ DirectProviderRaised
    /\ route = "review"
    /\ err.value = <<"SSL">>
    /\ ~resp.success

(***************************************************************************)
(* C11..C13, C18: the routes as a whole                                    *)
(***************************************************************************)
\* C11 (as claimed): on the design, code-generation and code-review routes
\* a provider call that returned text always ends in success=true with data.
C11_TextAlwaysGivesData ==
    (route \in DirectRoutes /\ pc = "done" /\ result.present)
        => (resp.success /\ resp.data.present)

\* the provider name of the request is none of openai, anthropic, google
UnknownProvider == Lower(req.llm_provider) \notin {"openai", "anthropic", "google"}

\* C12 (as claimed): a request naming an unknown provider invokes no
\* provider and does not end in a success.
C12_UnknownProviderFails ==
    (pc = "done" /\ UnknownProvider) => (Len(calls) = 0 /\ ~resp.success)

\* C13 (as claimed): in every route a recognized provider name, in any
\* letter case, resolves to the client of that vendor with the requested
\* model name.
C13_ResolutionFaithful ==
    (agent.kind = "agent" /\ ~UnknownProvider)
        => (agent.vendor = Lower(req.llm_provider) /\ agent.model = req.model)

\* FailureSignature SslError: the message mentions SSL or a certificate
\* verification failure
ClassifiedSsl(m) ==
    \E i \in 1..Len(m) : m[i] \in {"SSL", "certificate verify failed"}

\* the fixed user-facing message of an SslError
SslUserMessage == <<"SSL Certificate Error: Unable to verify API certificate.">>

\* C18 (as claimed): an SslError raised by the provider call is answered by
\* success=false carrying the fixed SSL message, after a single invocation.
C18_SslSurfacedNotRetried ==
    (pc = "done" /\ Len(calls) >= 1 /\ ~result.present
       /\ err.present /\ ClassifiedSsl(err.value))
        => /\ Len(calls) = 1
           /\ ~resp.success
           /\ (route # "jira" => resp.error = Some(SslUserMessage))

\* the first occurrence of lit in t is at position i
FirstAt(t, lit, i) == HasAt(t, i, lit) /\ \A j \in 1..(i - 1) : ~HasAt(t, j, lit)

Occurs(t, lit) == \E i \in 1..Len(t) : HasAt(t, i, lit)

\* y is x without its leading and trailing whitespace
IsTrimOf(y, x) ==
    \E i \in 1..(Len(x) + 1), j \in 0..Len(x) :
        /\ y = SubSeq(x, i, j)
        /\ \A k \in 1..(i - 1) : x[k] \in Whitespace
        /\ \A k \in (j + 1)..Len(x) : x[k] \in Whitespace
        /\ y # <<>> => (y[1] \notin Whitespace /\ y[Len(y)] \notin Whitespace)

\* c is the content of the first open ... close span of t, empty when t has none
IsFirstSpanOf(c, t, open, close) ==
    IF \E i \in 1..Len(t) : FirstAt(t, open, i)
                            /\ \E e \in (i + Len(open))..Len(t) : HasAt(t, e, close)
    THEN \E i \in 1..Len(t), e \in 1..Len(t) :
            /\ FirstAt(t, open, i)
            /\ e >= i + Len(open)
            /\ HasAt(t, e, close)
            /\ \A k \in (i + Len(open))..(e - 1) : ~HasAt(t, k, close)
            /\ IsTrimOf(c, SubSeq(t, i + Len(open), e - 1))
    ELSE c = <<>>

\* h is the complete content of the first html fenced block of t: up to
\* the next fence, or to the end of t when no fence follows
IsHtmlBlockOf(h, t) ==
    \E i \in 1..Len(t) :
        /\ FirstAt(t, HtmlFenceLit, i)
        /\ LET from == i + Len(HtmlFenceLit)
           IN  IF \E e \in from..Len(t) : HasAt(t, e, FenceLit)
               THEN \E e \in from..Len(t) :
                       /\ HasAt(t, e, FenceLit)
                       /\ \A k \in from..(e - 1) : ~HasAt(t, k, FenceLit)
                       /\ IsTrimOf(h, SubSeq(t, from, e - 1))
               ELSE IsTrimOf(h, SubSeq(t, from, Len(t)))

DesignExtracted == route = "design" /\ pc = "done" /\ resp.success /\ resp.data.present

\* C17 (as claimed): for every FreeformHtml text the html is, by strict
\* priority, the complete content of the first html fenced block (closed or
\* not), else the text from the first <!DOCTYPE html> on, else the whole
\* text; css and javascript are the contents of the first <style>...</style>
\* and <script>...</script> spans, empty when absent (surrounding whitespace
\* aside)
C17_HtmlByStrictPriority ==
    DesignExtracted =>
        LET t == result.value
            d == resp.data.value
        IN  /\ IF Occurs(t, HtmlFenceLit) THEN IsHtmlBlockOf(d.html, t)
               ELSE IF Occurs(t, DoctypeLit)
               THEN \E i \in 1..Len(t) : /\ FirstAt(t, DoctypeLit, i)
                                         /\ IsTrimOf(d.html, SubSeq(t, i, Len(t)))
               ELSE IsTrimOf(d.html, t)
            /\ IsFirstSpanOf(d.css, d.html, StyleOpenLit, StyleCloseLit)
            /\ IsFirstSpanOf(d.javascript, d.html, ScriptOpenLit, ScriptCloseLit)

CodeExtracted == route = "codegen" /\ pc = "done" /\ resp.success /\ resp.data.present

PositionsOf(t, c) == {i \in 1..Len(t) : t[i] = c}

\* t has a span from its first "{" to its last "}"
HasBraceSpan(t) ==
    \E i \in PositionsOf(t, "{"), j \in PositionsOf(t, "}") : i < j

BraceSpan(t) ==
    LET opens == PositionsOf(t, "{")
        closes == PositionsOf(t, "}")
    IN  SubSeq(t, CHOOSE i \in opens : \A k \in opens : i <= k,
                  CHOOSE j \in closes : \A k \in closes : k <= j)

KeysOf(d) == {d.items[i].s : i \in 1..Len(d.items)}

ValueOf(d, k) == d.items[CHOOSE i \in 1..Len(d.items) : d.items[i].s = k].items[1]

SpanParses(t) == HasBraceSpan(t) /\ json_loads(BraceSpan(t)).ok

\* the span of t parses to an object with the three required keys
IsStructured(t) ==
    /\ HasBraceSpan(t)
    /\ LET parsed == json_loads(BraceSpan(t))
       IN  /\ parsed.ok
           /\ {<<"language">>, <<"codeType">>, <<"files">>} \subseteq KeysOf(parsed.val)

DeclaredLanguage == IF req.language = <<"auto">> THEN <<"typescript">> ELSE req.language

\* d is a bundle built for this request rather than read from the text
IsBuiltForRequest(d) ==
    /\ d.t = "dict"
    /\ KeysOf(d) = {<<"language">>, <<"codeType">>, <<"files">>, <<"projectStructure">>,
                    <<"dependencies">>, <<"runInstructions">>}
    /\ ValueOf(d, <<"codeType">>) = PyStr(req.codeType)
    /\ ValueOf(d, <<"language">>) = PyStr(DeclaredLanguage)
    /\ ValueOf(d, <<"files">>).t = "list"
    /\ ValueOf(d, <<"files">>).items # <<>>

\* C20: the extractor returns the parsed object of the span from the first
\* "{" to the last "}" exactly when that span parses and has the keys
\* language, codeType and files; otherwise (no span, a span that does not
\* parse, a key missing) the bundle is built for the request, with the
\* requested codeType and the declared language, typescript for 'auto'
C20_StructuredOnlyWithAllKeys ==
    CodeExtracted =>
        IF IsStructured(result.value)
        THEN resp.data.value = json_loads(BraceSpan(result.value)).val
        ELSE IsBuiltForRequest(resp.data.value)

\* a span that parses but lacks a required key, answered with a built bundle
\* whose language and codeType differ from the ones in the text
C20_Witness ==
    /\ CodeExtracted
    /\ SpanParses(result.value)
    /\ ~IsStructured(result.value)
    /\ <<"language">> \in KeysOf(json_loads(BraceSpan(result.value)).val)
    /\ req.codeType = <<"frontend">> /\ req.language = <<"auto">>
    /\ IsBuiltForRequest(resp.data.value)

(***************************************************************************)
(* Fenced blocks, stated on the positions of the text                      *)
(***************************************************************************)
LineStarts(t) == {1} \cup {i + 1 : i \in {j \in 1..Len(t) : t[j] = "\n"}}

\* the end of the line that starts at a: the position before its newline
LineEnd(t, a) ==
    LET stops == {b \in a..(Len(t) + 1) : b = Len(t) + 1 \/ t[b] = "\n"}
    IN  (CHOOSE b \in stops : \A c \in stops : b <= c) - 1

\* the line that starts at a opens with a fence, blanks aside
IsFenceAt(t, a) ==
    \E i \in a..LineEnd(t, a) :
        /\ \A k \in a..(i - 1) : t[k] \in Whitespace
        /\ i + Len(FenceLit) - 1 <= LineEnd(t, a)
        /\ HasAt(t, i, FenceLit)

FenceStarts(t) == {a \in LineStarts(t) : IsFenceAt(t, a)}

\* the start of the k-th fence line
NthFence(t, k) ==
    LET fences == FenceStarts(t)
    IN  CHOOSE a \in fences : Cardinality({b \in fences : b < a}) = k - 1

ClosedBlocks(t) == Cardinality(FenceStarts(t)) \div 2

\* a last fence that nothing closes, with at least one line after it
HasOpenTail(t) ==
    /\ Cardinality(FenceStarts(t)) % 2 = 1
    /\ LineEnd(t, NthFence(t, Cardinality(FenceStarts(t)))) < Len(t)

\* what lies between the k-th pair of fence lines
BlockContent(t, k) ==
    SubSeq(t, LineEnd(t, NthFence(t, 2 * k - 1)) + 2, NthFence(t, 2 * k) - 2)

\* what follows the last, unclosed fence line
TailContent(t) ==
    SubSeq(t, LineEnd(t, NthFence(t, Cardinality(FenceStarts(t)))) + 2, Len(t))

FilesOf(d) == ValueOf(d, <<"files">>).items

ContentOf(file) == ValueOf(file, <<"content">>).s

\* C14 (as claimed): a text with at least one well-formed fenced block
\* yields exactly one file per fenced block, the i-th file holding the i-th
\* block's content
C14_OneFilePerFencedBlock ==
    (CodeExtracted /\ ClosedBlocks(result.value) >= 1)
        => /\ Len(FilesOf(resp.data.value)) = ClosedBlocks(result.value)
           /\ \A k \in 1..ClosedBlocks(result.value) :
                 ContentOf(FilesOf(resp.data.value)[k]) = BlockContent(result.value, k)

\* C14 (amended): a text that is not read as a structured object and has at
\* least one closed fenced block yields one file per closed block, in source
\* order, then one file for a final unclosed block that has a line after its
\* fence; each file holds what lies between its fences (to the end of the
\* text for the unclosed block)
C14_FilesFollowBlocks ==
    (CodeExtracted /\ ClosedBlocks(result.value) >= 1 /\ ~IsStructured(result.value))
        => LET t == result.value
               files == FilesOf(resp.data.value)
               n == ClosedBlocks(t)
           IN  /\ Len(files) = n + (IF HasOpenTail(t) THEN 1 ELSE 0)
               /\ \A k \in 1..n : ContentOf(files[k]) = BlockContent(t, k)
               /\ HasOpenTail(t) => ContentOf(files[n + 1]) = TailContent(t)

\* a closed block followed by an unclosed one: two files
C14_Witness ==
    /\ CodeExtracted /\ ~IsStructured(result.value)
    /\ ClosedBlocks(result.value) = 1 /\ HasOpenTail(result.value)
    /\ BlockContent(result.value, 1) # <<>>
    /\ Len(FilesOf(resp.data.value)) = 2

IsWholeTextFile(d, t) ==
    /\ Len(FilesOf(d)) = 1
    /\ ContentOf(FilesOf(d)[1]) = t

\* C15 (as claimed): a text with zero fenced blocks and no accepted JSON
\* yields exactly one file, holding the full text unchanged
C15_NoBlocksGivesWholeText ==
    (CodeExtracted /\ ClosedBlocks(result.value) = 0 /\ ~IsStructured(result.value))
        => IsWholeTextFile(resp.data.value, result.value)

\* C15 (amended): a text with no fence line and no accepted JSON yields
\* exactly one file, holding the full text unchanged
C15_NoFenceGivesWholeText ==
    (CodeExtracted /\ FenceStarts(result.value) = {} /\ ~IsStructured(result.value))
        => IsWholeTextFile(resp.data.value, result.value)

\* a text with a span that does not parse, blanks at its end and no fence line
C15_Witness ==
    /\ CodeExtracted
    /\ FenceStarts(result.value) = {}
    /\ HasBraceSpan(result.value) /\ ~SpanParses(result.value)
    /\ result.value[Len(result.value)] \in Whitespace
    /\ IsWholeTextFile(resp.data.value, result.value)

NameOf(file) == ValueOf(file, <<"filename">>).s

LanguageOf(file) == ValueOf(file, <<"language">>).s

\* the entry-point names of the language / category pairs that have one
HasEntryPoint(language, code_type) ==
    \/ language \in {<<"python">>, <<"javascript">>, <<"typescript">>}
    \/ code_type = <<"backend">> /\ language \in {<<"java">>, <<"csharp">>}

EntryPoint(language, code_type) ==
    IF code_type = <<"backend">>
    THEN CASE language = <<"python">> -> <<"main.py">>
           [] language = <<"java">> -> <<"Application.java">>
           [] language = <<"csharp">> -> <<"Program.cs">>
           [] OTHER -> <<"server.ts">>
    ELSE IF language = <<"python">> THEN <<"app.py">> ELSE <<"App.tsx">>

\* name is stem, the decimal digits of i, and a suffix
IsNumbered(name, i) ==
    \E a \in 1..Len(name), b \in 1..Len(name) :
        /\ a < b
        /\ SubSeq(name, a, b - 1) = Decimal(i)
        /\ a > 1 /\ name[a - 1] \notin DigitChars
        /\ name[b] \notin DigitChars

\* C16 (as claimed): file 0 has the canonical entry-point name of the
\* request's language / category pair, and every file i >= 1 a numbered
\* name containing i
C16_NamesKeyedByRequest ==
    (CodeExtracted /\ ~IsStructured(result.value))
        => LET files == FilesOf(resp.data.value)
           IN  /\ NameOf(files[1]) = EntryPoint(DeclaredLanguage, req.codeType)
               /\ \A k \in 2..Len(files) : IsNumbered(NameOf(files[k]), k - 1)

\* C16 (amended): a file's name is fixed by the file's own language (the
\* tag of its opening fence; the declared language when the tag is empty or
\* the text has no block), the code category and the index: with a pair in
\* the table, index 0 has the entry-point name and index i >= 1 a numbered
\* name containing i; with a pair outside the table every index i, 0
\* included, has the name code_i.<extension>
C16_NamesKeyedByFileLanguage ==
    (CodeExtracted /\ ~IsStructured(result.value))
        => LET files == FilesOf(resp.data.value)
           IN  \A k \in 1..Len(files) :
                  LET name == NameOf(files[k])
                      language == LanguageOf(files[k])
                  IN  IF HasEntryPoint(language, req.codeType)
                      THEN IF k = 1
                           THEN name = EntryPoint(language, req.codeType)
                           ELSE IsNumbered(name, k - 1) /\ name[1] # "code_"
                      ELSE /\ name[1] = "code_"
                           /\ SubSeq(name, 2, Len(name) - 2) = Decimal(k - 1)
                           /\ name[Len(name) - 1] = "."

\* a frontend request declaring python whose text has a go block first and an
\* untagged block second: code_0.go, then component_1.py
C16_Witness ==
    /\ CodeExtracted /\ ~IsStructured(result.value)
    /\ req.codeType = <<"frontend">> /\ req.language = <<"python">>
    /\ Len(FilesOf(resp.data.value)) = 2
    /\ NameOf(FilesOf(resp.data.value)[1]) = <<"code_", "0", ".", "go">>
    /\ NameOf(FilesOf(resp.data.value)[2]) = <<"component_", "1", ".py">>

TestDone == route = "test" /\ pc = "done"

\* C19 (as claimed): under every interleaving of the requests that touch
\* ./screenshots, no filesystem failure leaves a handler, a failed request's
\* screenshot list is empty, and a listing that fails leaves the rest of the
\* request's outcome as it was: a test whose agent returned a text still
\* answers success with that text
C19_FsFailureContained ==
    /\ ~raised
    /\ procs["list"].pc = "done"
          => (procs["list"].resp.success \/ procs["list"].resp.screenshots = {})
    /\ \A p \in ClearProcs : procs[p].pc = "done" => procs[p].resp # Pending
    /\ TestDone => (resp.success \/ resp.screenshots = {})
    /\ (TestDone /\ result.present) => (resp.success /\ resp.result = result.value)

(***************************************************************************)
(* C21, C22: classification by letter case, and the extracted key and URL  *)
(***************************************************************************)
\* m has the ValidationShapeError signature when letter case is set aside
ValidationShapeIgnoringCase(m) ==
    \E i, j \in 1..Len(m) :
        Lower(m[i]) = "validation error" /\ Lower(m[j]) = "dynamicmodel"

\* the handler took the retry path: it asked for the fallback agent
RetryPathTaken == fallback_agent # NoneObj \/ fallback_error.present

\* C21 (as claimed): classification ignores letter case, so a message of
\* the first provider call that has the ValidationShapeError substrings in
\* any letter case takes the retry path
C21_ClassificationIgnoresCase ==
    (JiraDone /\ Len(calls) >= 1 /\ err.present
       /\ ValidationShapeIgnoringCase(err.value))
        => RetryPathTaken

\* u ends with suffix
EndsWith(u, suffix) ==
    /\ Len(suffix) <= Len(u)
    /\ SubSeq(u, Len(u) - Len(suffix) + 1, Len(u)) = suffix

\* C22 (as claimed): when the key and the URL were extracted from the
\* provider's text, the URL ends with /browse/<key> for the returned key,
\* and the key is an issue key of the request's project
C22_KeyAndUrlSameIssue ==
    (JiraDone /\ result.present /\ resp.message = MsgCreated)
        => /\ EndsWith(resp.issue_url, BrowseLit \o resp.issue_key)
           /\ \E n \in 1..Len(resp.issue_key) :
                 IsProjectNumberKey(resp.issue_key, req.project, n)

====
